---- MODULE Spec2Model ----
(***************************************************************************)
(* Model of jfabello/simple-timer: the SimpleTimer class                   *)
(* (src/src/simple-timer-class.js), a promise-based one-shot timer with    *)
(* the states SET, RUNNING, DONE and CANCELLED.                            *)
(*                                                                         *)
(* The model holds NumTimers instance slots, the heap of promises the      *)
(* instances create, the table of setTimeout registrations of the event    *)
(* loop and the once-listeners of each instance's EventEmitter.  Every     *)
(* handler runs to completion in one step (single-threaded event loop).    *)
(***************************************************************************)
EXTENDS Integers, Sequences, FiniteSets

\* Number of SimpleTimer instance slots of the model.
NumTimers == 2

Timers == 1..NumTimers

\* Largest delay setTimeout honours; a larger delay is replaced by 1 ms.
TIMEOUT_MAX == 2147483647

\* Values of the private state symbols (null before construction).
NULL == "null"
SET == "SET"
RUNNING == "RUNNING"
DONE == "DONE"
CANCELLED == "CANCELLED"

\* The error classes of simple-timer-errors.js.
ERROR_SIMPLE_TIMER_TIMEOUT_TYPE_INVALID == "ERROR_SIMPLE_TIMER_TIMEOUT_TYPE_INVALID"
ERROR_SIMPLE_TIMER_TIMEOUT_OUT_OF_BOUNDS == "ERROR_SIMPLE_TIMER_TIMEOUT_OUT_OF_BOUNDS"
ERROR_SIMPLE_TIMER_NOT_IN_SET_OR_RUNNING_STATES == "ERROR_SIMPLE_TIMER_NOT_IN_SET_OR_RUNNING_STATES"
ERROR_SIMPLE_TIMER_NOT_RUNNING == "ERROR_SIMPLE_TIMER_NOT_RUNNING"

\* No exception thrown / no value returned by the last call.
NoError == "none"
NoValue == -1

\* Arguments handed to the constructor.  A number is the rational
\* num * mul / den, so 7/2 is 3.5, 4/2 is the integer 2 and 32768 * 65536 is
\* 2^31, one more than TIMEOUT_MAX; the other kinds are not numbers.
NumberArgs == [kind : {"number"}, num : {-5, 0, 1, 2}, mul : {1}, den : {1}]
                \cup [kind : {"number"}, num : {-7, 1, 4, 7}, mul : {1}, den : {2}]
                \cup [kind : {"number"}, num : {32768}, mul : {65536}, den : {1}]

OtherArgs == [kind : {"undefined", "string", "array", "object"},
              num : {0}, mul : {1}, den : {1}]

ConstructorArgs == NumberArgs \cup OtherArgs

\* The argument recorded for a call that takes none.
NoArg == [kind |-> "none", num |-> 0, mul |-> 1, den |-> 1]

VARIABLES
    timerTimeout,   \* #timerTimeout of each instance, the number num * mul
    timerState,     \* #timerState of each instance
    timerEmitter,   \* #timerEmitter: the once-listeners still registered
    timerPromise,   \* #timerPromise: id of the promise, 0 is null
    timerHandle,    \* #timerHandle: id of the setTimeout registration, 0 is null
    promises,       \* heap of the promises created by start()
    timeouts,       \* setTimeout registrations of the event loop
    last,           \* the last call or callback and its outcome
    startReturned,  \* history: the values start() has returned, per instance
    emitted,        \* history: how often each event was emitted, per instance
    delivered       \* history: the events whose listener has run, per instance

vars == <<timerTimeout, timerState, timerEmitter, timerPromise, timerHandle,
          promises, timeouts, last, startReturned, emitted, delivered>>

----
\* Variant of IsInteger that only tests for a number (typeof).
IsNumber(arg) == arg.kind = "number"

\* Number.isInteger(timeout)
IsInteger(arg) ==
    arg.kind = "number" /\ ((arg.num % arg.den) * (arg.mul % arg.den)) % arg.den = 0

\* Variant of LessThanOne that compares with <= : num * mul <= den
LessThanOrEqualOne(arg) == arg.num <= arg.den \div arg.mul

\* Variant of LessThanOne that compares with 0: num * mul < 0
LessThanZero(arg) == arg.num < 0

\* timeout < 1, for a number: num * mul < den
LessThanOne(arg) == arg.num < (arg.den + arg.mul - 1) \div arg.mul

\* The number this.#timerTimeout = timeout stores, num * mul / den; an
\* integer is stored with den = 1.
IntegerValue(arg) ==
    IF arg.num % arg.den = 0
    THEN [num |-> arg.num \div arg.den, mul |-> arg.mul, den |-> 1]
    ELSE [num |-> arg.num, mul |-> arg.mul, den |-> arg.den]

\* The null value of #timerTimeout before construction.
NoTimeout == [num |-> 0, mul |-> 1, den |-> 1]

\* Variant of ConstructorError that checks the bound before the type.
ConstructorErrorBoundsFirst(arg) ==
    IF arg.kind = "number" /\ LessThanOne(arg) THEN ERROR_SIMPLE_TIMER_TIMEOUT_OUT_OF_BOUNDS
    ELSE IF ~IsInteger(arg) THEN ERROR_SIMPLE_TIMER_TIMEOUT_TYPE_INVALID
    ELSE NoError

\* The error the constructor throws for an argument, NoError if it accepts it.
ConstructorError(arg) ==
    IF ~IsInteger(arg) THEN ERROR_SIMPLE_TIMER_TIMEOUT_TYPE_INVALID
    ELSE IF LessThanOne(arg) THEN ERROR_SIMPLE_TIMER_TIMEOUT_OUT_OF_BOUNDS
    ELSE NoError

\* The delay setTimeout(callback, delay) really waits for.
SetTimeoutDelay(delay) ==
    IF /\ delay.num >= delay.den
       /\ delay.num <= TIMEOUT_MAX \div delay.mul
    THEN (delay.num * delay.mul) \div delay.den
    ELSE 1

\* Variant of ClearTimeout that leaves the registration pending.
ClearTimeoutForgotten(ts, h) == ts

\* clearTimeout(handle): a pending registration is revoked; null is ignored.
ClearTimeout(ts, h) ==
    IF h \in DOMAIN ts /\ ts[h].status = "pending"
    THEN [ts EXCEPT ![h].status = "cleared"]
    ELSE ts

\* Variant of Resolve called before the listener has set the new state.
ResolveStale(pr, value) ==
    IF pr.status = "pending"
    THEN [status |-> "fulfilled", value |-> RUNNING, resolveCalls |-> pr.resolveCalls + 1]
    ELSE [pr EXCEPT !.resolveCalls = @ + 1]

\* resolve(value) of a promise: only the first call settles it.
Resolve(pr, value) ==
    IF pr.status = "pending"
    THEN [status |-> "fulfilled", value |-> value, resolveCalls |-> pr.resolveCalls + 1]
    ELSE [pr EXCEPT !.resolveCalls = @ + 1]

\* Variant of ListenerState in which both listeners set CANCELLED.
ListenerStateCopied(event) == CANCELLED

\* The state a once-listener of start() sets and resolves the promise with.
ListenerState(event) == IF event = "timerup" THEN DONE ELSE CANCELLED

\* Variant of StartJoins that never joins a running timer.
StartNeverJoins(t) == FALSE

\* The guard of start() that joins a running timer.
StartJoins(t) == timerState[t] = RUNNING

\* Variant of StartThrows that rejects only a DONE timer.
StartThrowsOnlyDone(t) == timerState[t] = DONE

\* Variant of StartThrows with the comparison inverted.
StartThrowsInverted(t) == timerState[t] = SET

\* The guard of start() that rejects the call.
StartThrows(t) == timerState[t] # SET

\* Variant of CancelThrows that rejects only a timer that was never started.
CancelThrowsOnlyUnstarted(t) == timerState[t] = SET

\* The guard of cancel() that rejects the call.
CancelThrows(t) == timerState[t] # RUNNING

\* Variant of Emit whose listeners do not clear #timerPromise.
EmitKeepsPromise(t, event) ==
    LET ls == {l \in timerEmitter[t] : l.event = event}
        ps == {l.promise : l \in ls}
    IN  /\ emitted' = [emitted EXCEPT ![t][event] = @ + 1]
        /\ timerEmitter' = [timerEmitter EXCEPT ![t] = @ \ ls]
        /\ IF ls = {}
           THEN UNCHANGED <<timerHandle, timerPromise, timerState, promises, delivered>>
           ELSE /\ timerHandle' = [timerHandle EXCEPT ![t] = 0]
                /\ UNCHANGED timerPromise
                /\ timerState' = [timerState EXCEPT ![t] = ListenerState(event)]
                /\ promises' = [p \in DOMAIN promises |->
                                   IF p \in ps
                                   THEN Resolve(promises[p], ListenerState(event))
                                   ELSE promises[p]]
                /\ delivered' = [delivered EXCEPT ![t] = @ \cup {event}]

\* Variant of Emit whose listeners do not clear #timerHandle.
EmitKeepsHandle(t, event) ==
    LET ls == {l \in timerEmitter[t] : l.event = event}
        ps == {l.promise : l \in ls}
    IN  /\ emitted' = [emitted EXCEPT ![t][event] = @ + 1]
        /\ timerEmitter' = [timerEmitter EXCEPT ![t] = @ \ ls]
        /\ IF ls = {}
           THEN UNCHANGED <<timerHandle, timerPromise, timerState, promises, delivered>>
           ELSE /\ UNCHANGED timerHandle
                /\ timerPromise' = [timerPromise EXCEPT ![t] = 0]
                /\ timerState' = [timerState EXCEPT ![t] = ListenerState(event)]
                /\ promises' = [p \in DOMAIN promises |->
                                   IF p \in ps
                                   THEN Resolve(promises[p], ListenerState(event))
                                   ELSE promises[p]]
                /\ delivered' = [delivered EXCEPT ![t] = @ \cup {event}]

\* Variant of Emit with one emitter shared by all instances (a static
\* field): the listeners of every instance run.
EmitShared(t, event) ==
    LET ls(u) == {l \in timerEmitter[u] : l.event = event}
        us == {u \in Timers : ls(u) # {}}
        ps == UNION {{l.promise : l \in ls(u)} : u \in us}
    IN  /\ emitted' = [emitted EXCEPT ![t][event] = @ + 1]
        /\ timerEmitter' = [u \in Timers |-> timerEmitter[u] \ ls(u)]
        /\ timerHandle' = [u \in Timers |-> IF u \in us THEN 0 ELSE timerHandle[u]]
        /\ timerPromise' = [u \in Timers |-> IF u \in us THEN 0 ELSE timerPromise[u]]
        /\ timerState' = [u \in Timers |->
                             IF u \in us THEN ListenerState(event) ELSE timerState[u]]
        /\ promises' = [p \in DOMAIN promises |->
                           IF p \in ps
                           THEN Resolve(promises[p], ListenerState(event))
                           ELSE promises[p]]
        /\ delivered' = [u \in Timers |->
                            IF u \in us THEN delivered[u] \cup {event} ELSE delivered[u]]

\* this.#timerEmitter.emit(event): every listener of the event is removed
\* (once) and run; the listeners of start() clear the handle and the
\* promise, set the state and resolve their promise.
Emit(t, event) ==
    LET ls == {l \in timerEmitter[t] : l.event = event}
        ps == {l.promise : l \in ls}
    IN  /\ emitted' = [emitted EXCEPT ![t][event] = @ + 1]
        /\ timerEmitter' = [timerEmitter EXCEPT ![t] = @ \ ls]
        /\ IF ls = {}
           THEN UNCHANGED <<timerHandle, timerPromise, timerState, promises, delivered>>
           ELSE /\ timerHandle' = [timerHandle EXCEPT ![t] = 0]
                /\ timerPromise' = [timerPromise EXCEPT ![t] = 0]
                /\ timerState' = [timerState EXCEPT ![t] = ListenerState(event)]
                /\ promises' = [p \in DOMAIN promises |->
                                   IF p \in ps
                                   THEN Resolve(promises[p], ListenerState(event))
                                   ELSE promises[p]]
                /\ delivered' = [delivered EXCEPT ![t] = @ \cup {event}]

----
Init ==
    /\ timerTimeout = [t \in Timers |-> NoTimeout]
    /\ timerState = [t \in Timers |-> NULL]
    /\ timerEmitter = [t \in Timers |-> {}]
    /\ timerPromise = [t \in Timers |-> 0]
    /\ timerHandle = [t \in Timers |-> 0]
    /\ promises = <<>>
    /\ timeouts = <<>>
    /\ last = [op |-> "none", timer |-> 0, arg |-> NoArg, pre |-> NULL,
               returned |-> NoValue, thrown |-> NoError]
    /\ startReturned = [t \in Timers |-> {}]
    /\ emitted = [t \in Timers |-> [timerup |-> 0, timercancelled |-> 0]]
    /\ delivered = [t \in Timers |-> {}]

\* new SimpleTimer(timeout) into the free slot t
constructor(t, arg) ==
    /\ timerState[t] = NULL
    /\ last' = [op |-> "constructor", timer |-> t, arg |-> arg, pre |-> NULL,
                returned |-> NoValue, thrown |-> ConstructorError(arg)]
    /\ IF ConstructorError(arg) # NoError
       THEN UNCHANGED <<timerTimeout, timerState>>
       ELSE /\ timerTimeout' = [timerTimeout EXCEPT ![t] = IntegerValue(arg)]
            /\ timerState' = [timerState EXCEPT ![t] = SET]
    /\ UNCHANGED <<timerEmitter, timerPromise, timerHandle, promises, timeouts,
                   startReturned, emitted, delivered>>

\* start() of instance t
start(t) ==
    /\ timerState[t] # NULL
    /\ IF StartJoins(t)
       THEN /\ last' = [op |-> "start", timer |-> t, arg |-> NoArg, pre |-> timerState[t],
                        returned |-> timerPromise[t], thrown |-> NoError]
            /\ startReturned' = [startReturned EXCEPT ![t] = @ \cup {timerPromise[t]}]
            /\ UNCHANGED <<timerState, timerEmitter, timerPromise, timerHandle,
                           promises, timeouts>>
       ELSE IF StartThrows(t)
       THEN /\ last' = [op |-> "start", timer |-> t, arg |-> NoArg, pre |-> timerState[t],
                        returned |-> NoValue,
                        thrown |-> ERROR_SIMPLE_TIMER_NOT_IN_SET_OR_RUNNING_STATES]
            /\ UNCHANGED <<timerState, timerEmitter, timerPromise, timerHandle,
                           promises, timeouts, startReturned>>
       ELSE LET p == Len(promises) + 1
                h == Len(timeouts) + 1
            IN  /\ promises' = Append(promises,
                       [status |-> "pending", value |-> NULL, resolveCalls |-> 0])
                /\ timerEmitter' = [timerEmitter EXCEPT ![t] = @ \cup
                       {[event |-> "timerup", promise |-> p],
                        [event |-> "timercancelled", promise |-> p]}]
                /\ timerPromise' = [timerPromise EXCEPT ![t] = p]
                /\ timeouts' = Append(timeouts,
                       [owner |-> t, requested |-> timerTimeout[t],
                        remaining |-> SetTimeoutDelay(timerTimeout[t]),
                        elapsed |-> 0, status |-> "pending"])
                /\ timerHandle' = [timerHandle EXCEPT ![t] = h]
                /\ timerState' = [timerState EXCEPT ![t] = RUNNING]
                /\ last' = [op |-> "start", timer |-> t, arg |-> NoArg, pre |-> timerState[t],
                            returned |-> p, thrown |-> NoError]
                /\ startReturned' = [startReturned EXCEPT ![t] = @ \cup {p}]
    /\ UNCHANGED <<timerTimeout, emitted, delivered>>

\* Variant of cancel that clears and emits before it checks the state.
cancelEmitsBeforeGuard(t) ==
    /\ timerState[t] # NULL
    /\ timeouts' = ClearTimeout(timeouts, timerHandle[t])
    /\ Emit(t, "timercancelled")
    /\ last' = IF CancelThrows(t)
               THEN [op |-> "cancel", timer |-> t, arg |-> NoArg, pre |-> timerState[t],
                     returned |-> NoValue, thrown |-> ERROR_SIMPLE_TIMER_NOT_RUNNING]
               ELSE [op |-> "cancel", timer |-> t, arg |-> NoArg, pre |-> timerState[t],
                     returned |-> timerPromise'[t], thrown |-> NoError]
    /\ UNCHANGED <<timerTimeout, startReturned>>

\* cancel() of instance t
cancel(t) ==
    /\ timerState[t] # NULL
    /\ IF CancelThrows(t)
       THEN /\ last' = [op |-> "cancel", timer |-> t, arg |-> NoArg, pre |-> timerState[t],
                        returned |-> NoValue, thrown |-> ERROR_SIMPLE_TIMER_NOT_RUNNING]
            /\ UNCHANGED <<timerState, timerEmitter, timerPromise, timerHandle,
                           promises, timeouts, emitted, delivered>>
       ELSE /\ timeouts' = ClearTimeout(timeouts, timerHandle[t])
            /\ Emit(t, "timercancelled")
            /\ last' = [op |-> "cancel", timer |-> t, arg |-> NoArg, pre |-> timerState[t],
                        returned |-> timerPromise'[t], thrown |-> NoError]
    /\ UNCHANGED <<timerTimeout, startReturned>>

\* The event loop runs the callback of the due setTimeout registration h:
\* () => this.#timerEmitter.emit("timerup")
timerup(h) ==
    /\ h \in DOMAIN timeouts
    /\ timeouts[h].status = "pending"
    /\ timeouts[h].remaining = 0
    /\ timeouts' = [timeouts EXCEPT ![h].status = "fired"]
    /\ Emit(timeouts[h].owner, "timerup")
    /\ last' = [op |-> "timerup", timer |-> timeouts[h].owner, arg |-> NoArg,
                pre |-> timerState[timeouts[h].owner],
                returned |-> NoValue, thrown |-> NoError]
    /\ UNCHANGED <<timerTimeout, startReturned>>

\* The continuation of a caller that awaited the promise start() returned
\* runs and reads the state: await timer.start(); timer.state
resume(t) ==
    /\ \E p \in startReturned[t] :
          /\ p \in DOMAIN promises
          /\ promises[p].status = "fulfilled"
          /\ last' = [op |-> "resume", timer |-> t, arg |-> NoArg,
                      pre |-> timerState[t], returned |-> p, thrown |-> NoError]
    /\ UNCHANGED <<timerTimeout, timerState, timerEmitter, timerPromise, timerHandle,
                   promises, timeouts, startReturned, emitted, delivered>>

\* One time unit passes for every pending registration that is not yet due.
Tick ==
    /\ \E h \in DOMAIN timeouts : timeouts[h].status = "pending" /\ timeouts[h].remaining > 0
    /\ timeouts' = [h \in DOMAIN timeouts |->
                       IF timeouts[h].status = "pending" /\ timeouts[h].remaining > 0
                       THEN [timeouts[h] EXCEPT !.remaining = @ - 1, !.elapsed = @ + 1]
                       ELSE timeouts[h]]
    /\ UNCHANGED <<timerTimeout, timerState, timerEmitter, timerPromise, timerHandle,
                   promises, last, startReturned, emitted, delivered>>

Next ==
    \/ \E t \in Timers, arg \in ConstructorArgs : constructor(t, arg)
    \/ \E t \in Timers : start(t)
    \/ \E t \in Timers : cancel(t)
    \/ \E h \in Timers : timerup(h)
    \/ \E t \in Timers : resume(t)
    \/ Tick

Spec == Init /\ [][Next]_vars

\* The event loop keeps time passing and runs every due callback.
Fairness == WF_vars(Tick) /\ \A h \in Timers : WF_vars(timerup(h))

LiveSpec == Spec /\ Fairness

----
\* The setTimeout registrations start() has made for instance t.
Registrations(t) == {h \in DOMAIN timeouts : timeouts[h].owner = t}

\* The registrations of instance t the event loop may still run.
PendingRegistrations(t) == {h \in Registrations(t) : timeouts[h].status = "pending"}

Terminal == {DONE, CANCELLED}

\* The promise p has been fulfilled with the value v.
FulfilledWith(p, v) ==
    p \in DOMAIN promises /\ promises[p].status = "fulfilled" /\ promises[p].value = v

----
\* C1: every change of the state of a constructed timer is SET -> RUNNING made
\* by start(), RUNNING -> DONE made by the expiry callback, or
\* RUNNING -> CANCELLED made by cancel(); no other change of state occurs.
C1_OnlyValidTransitions ==
    [][\A t \in Timers :
          (timerState[t] # NULL /\ timerState'[t] # timerState[t]) =>
             /\ last'.timer = t
             /\ \/ timerState[t] = SET /\ timerState'[t] = RUNNING /\ last'.op = "start"
                \/ timerState[t] = RUNNING /\ timerState'[t] = DONE /\ last'.op = "timerup"
                \/ timerState[t] = RUNNING /\ timerState'[t] = CANCELLED
                      /\ last'.op = "cancel"]_vars

\* One timer has expired and the other one has been cancelled.
C1_Witness ==
    \E t, u \in Timers : timerState[t] = DONE /\ timerState[u] = CANCELLED

\* C2: a state of DONE or CANCELLED is never left: no step changes it.
C2_TerminalIsForever ==
    [][\A t \in Timers :
          timerState[t] \in Terminal => timerState'[t] = timerState[t]]_vars

\* start() or cancel() has been called on a timer that was DONE or CANCELLED.
C2_Witness ==
    /\ last.op \in {"start", "cancel"}
    /\ last.pre \in Terminal
    /\ timerState[last.timer] = last.pre

\* C3: once cancel() has run on a RUNNING timer the state is CANCELLED, the
\* handle start() returned is fulfilled with CANCELLED, and neither changes
\* afterwards (the state never becomes DONE).
C3_CancelBeforeExpiry ==
    \A t \in Timers :
        emitted[t].timercancelled > 0 =>
            /\ timerState[t] = CANCELLED
            /\ \A p \in startReturned[t] : FulfilledWith(p, CANCELLED)

\* A timer was cancelled while its registration was already due, the
\* callback not having run yet.
C3_Witness ==
    \E t \in Timers :
        /\ emitted[t].timercancelled > 0
        /\ startReturned[t] # {}
        /\ \E h \in Registrations(t) :
              timeouts[h].status = "cleared" /\ timeouts[h].remaining = 0

\* C4: a promise is resolved at most once and at most one of the two events
\* is delivered to the listeners of an instance.
C4_AtMostOneSignal ==
    /\ \A p \in DOMAIN promises : promises[p].resolveCalls <= 1
    /\ \A t \in Timers : Cardinality(delivered[t]) <= 1

\* A signal was delivered and a later call reached the settled timer.
C4_Witness ==
    /\ last.op \in {"start", "cancel"}
    /\ Cardinality(delivered[last.timer]) = 1
    /\ \E p \in startReturned[last.timer] : promises[p].resolveCalls = 1

\* C5: cancel() on a RUNNING timer returns the handle start() returned, and
\* that handle is fulfilled with CANCELLED.
C5_CancelReturnsStartHandle ==
    (last.op = "cancel" /\ last.pre = RUNNING) =>
        /\ last.returned \in startReturned[last.timer]
        /\ FulfilledWith(last.returned, CANCELLED)

\* C6: every start() on a RUNNING timer returns the one handle the first
\* start() returned, leaves the state RUNNING and registers no further
\* delayed execution.
C6_IdempotentJoin ==
    \A t \in Timers :
        /\ Cardinality(startReturned[t]) <= 1
        /\ Cardinality(Registrations(t)) <= 1
        /\ (last.op = "start" /\ last.timer = t /\ last.pre = RUNNING) =>
              /\ last.thrown = NoError
              /\ last.returned \in DOMAIN promises
              /\ startReturned[t] = {last.returned}
              /\ timerPromise[t] = last.returned
              /\ timerState[t] = RUNNING
              /\ Cardinality(PendingRegistrations(t)) = 1

\* start() has joined a RUNNING timer.
C6_Witness ==
    /\ last.op = "start"
    /\ last.pre = RUNNING
    /\ timerState[last.timer] = RUNNING

\* C7: start() on a SET timer returns a pending promise, stores it in
\* #timerPromise, sets the state to RUNNING and makes exactly one setTimeout
\* registration, asked for #timerTimeout time units.
C7_StartFromSet ==
    (last.op = "start" /\ last.pre = SET) =>
        LET t == last.timer
        IN  /\ last.thrown = NoError
            /\ last.returned \in DOMAIN promises
            /\ promises[last.returned].status = "pending"
            /\ timerPromise[t] = last.returned
            /\ timerState[t] = RUNNING
            /\ Cardinality(Registrations(t)) = 1
            /\ Registrations(t) = {timerHandle[t]}
            /\ timeouts[timerHandle[t]].status = "pending"
            /\ timeouts[timerHandle[t]].requested = timerTimeout[t]

\* start() has just started a SET timer.
C7_Witness ==
    /\ last.op = "start"
    /\ last.pre = SET
    /\ last.returned = timerPromise[last.timer]
    /\ timerHandle[last.timer] # 0

\* C8: no timer stays RUNNING forever, and a timer that was started, was not
\* cancelled and is no longer RUNNING is DONE with the handle of start()
\* fulfilled with DONE.
C8_EventuallyDone ==
    /\ \A t \in Timers : []<>(timerState[t] # RUNNING)
    /\ [](\A t \in Timers :
            (/\ startReturned[t] # {}
             /\ emitted[t].timercancelled = 0
             /\ timerState[t] # RUNNING) =>
                /\ timerState[t] = DONE
                /\ \A p \in startReturned[t] : FulfilledWith(p, DONE))

\* A timer expired without ever being cancelled.
C8_Witness ==
    \E t \in Timers :
        /\ timerState[t] = DONE
        /\ emitted[t].timercancelled = 0
        /\ \E p \in startReturned[t] : FulfilledWith(p, DONE)

\* C9: start() on a DONE or CANCELLED timer throws
\* ERROR_SIMPLE_TIMER_NOT_IN_SET_OR_RUNNING_STATES, returns nothing and
\* registers no delayed execution; the timer stays as it was.
C9_StartOnTerminalThrows ==
    (last.op = "start" /\ last.pre \in Terminal) =>
        LET t == last.timer
        IN  /\ last.thrown = ERROR_SIMPLE_TIMER_NOT_IN_SET_OR_RUNNING_STATES
            /\ last.returned = NoValue
            /\ timerState[t] = last.pre
            /\ timerPromise[t] = 0
            /\ PendingRegistrations(t) = {}
            /\ Cardinality(Registrations(t)) = 1

\* start() was rejected on a CANCELLED timer.
C9_Witness ==
    /\ last.op = "start"
    /\ last.pre = CANCELLED
    /\ last.thrown = ERROR_SIMPLE_TIMER_NOT_IN_SET_OR_RUNNING_STATES

\* C10: cancel() on a SET, DONE or CANCELLED timer throws
\* ERROR_SIMPLE_TIMER_NOT_RUNNING; cancel() on a RUNNING timer succeeds and
\* leaves it CANCELLED, so a second cancel() throws.
C10_CancelNotRunningThrows ==
    /\ (last.op = "cancel" /\ last.pre \in {SET, DONE, CANCELLED}) =>
          /\ last.thrown = ERROR_SIMPLE_TIMER_NOT_RUNNING
          /\ last.returned = NoValue
    /\ (last.op = "cancel" /\ last.pre = RUNNING) =>
          /\ last.thrown = NoError
          /\ timerState[last.timer] = CANCELLED

\* A second cancel() was rejected on a timer the first cancel() cancelled.
C10_Witness ==
    /\ last.op = "cancel"
    /\ last.pre = CANCELLED
    /\ last.thrown = ERROR_SIMPLE_TIMER_NOT_RUNNING
    /\ emitted[last.timer].timercancelled = 1

----
\* The argument is a number without a fractional part.
WholeNumberArg(arg) ==
    arg.kind = "number" /\ (arg.den = 1 \/ (arg.mul = 1 /\ arg.num % arg.den = 0))

\* The errors start() and cancel() reject a call with.
CallErrors ==
    {ERROR_SIMPLE_TIMER_NOT_IN_SET_OR_RUNNING_STATES, ERROR_SIMPLE_TIMER_NOT_RUNNING}

\* C11: a start() or cancel() that throws leaves the state, the promise, the
\* handle and the timeout of the timer, and everything else, as they were.
C11_RejectedCallChangesNothing ==
    [][\A t \in Timers :
          (/\ last' # last
           /\ last'.timer = t
           /\ last'.op \in {"start", "cancel"}
           /\ last'.thrown \in CallErrors) =>
             /\ timerState'[t] = timerState[t]
             /\ timerPromise'[t] = timerPromise[t]
             /\ timerHandle'[t] = timerHandle[t]
             /\ timerTimeout'[t] = timerTimeout[t]
             /\ UNCHANGED <<timerState, timerPromise, timerHandle, timerTimeout,
                            timerEmitter, promises, timeouts>>]_vars

\* cancel() was rejected on a SET timer, which is still SET.
C11_Witness ==
    /\ last.op = "cancel"
    /\ last.pre = SET
    /\ last.thrown = ERROR_SIMPLE_TIMER_NOT_RUNNING
    /\ timerState[last.timer] = SET

\* C12: the constructor accepts every whole number >= 1 and leaves the timer
\* SET with no promise and no setTimeout registration; a timer start() was
\* never called on stays SET, with nothing registered.
C12_ConstructionYieldsSet ==
    /\ (last.op = "constructor" /\ WholeNumberArg(last.arg) /\ last.arg.num >= 1) =>
          /\ last.thrown = NoError
          /\ timerState[last.timer] = SET
          /\ timerTimeout[last.timer].num >= 1
    /\ \A t \in Timers :
          (timerState[t] # NULL /\ startReturned[t] = {}) =>
              /\ timerState[t] = SET
              /\ timerPromise[t] = 0
              /\ timerHandle[t] = 0
              /\ Registrations(t) = {}

\* A timer constructed with 1 is still SET while another timer has expired.
C12_Witness ==
    \E t, u \in Timers :
        /\ timerState[t] = SET
        /\ timerTimeout[t] = [num |-> 1, mul |-> 1, den |-> 1]
        /\ timerState[u] = DONE

\* C13: the constructor rejects every argument that is not a whole number,
\* fractions below 1 included, with ERROR_SIMPLE_TIMER_TIMEOUT_TYPE_INVALID,
\* and constructs nothing.
C13_NotWholeIsTypeInvalid ==
    (last.op = "constructor" /\ ~WholeNumberArg(last.arg)) =>
        /\ last.thrown = ERROR_SIMPLE_TIMER_TIMEOUT_TYPE_INVALID
        /\ timerState[last.timer] = NULL
        /\ timerTimeout[last.timer] = NoTimeout

\* The constructor was called with -3.5.
C13_Witness ==
    /\ last.op = "constructor"
    /\ last.arg = [kind |-> "number", num |-> -7, mul |-> 1, den |-> 2]
    /\ last.thrown = ERROR_SIMPLE_TIMER_TIMEOUT_TYPE_INVALID

\* C14: the constructor rejects every whole number <= 0 with
\* ERROR_SIMPLE_TIMER_TIMEOUT_OUT_OF_BOUNDS and constructs nothing.
C14_NotPositiveIsOutOfBounds ==
    (last.op = "constructor" /\ WholeNumberArg(last.arg) /\ last.arg.num <= 0) =>
        /\ last.thrown = ERROR_SIMPLE_TIMER_TIMEOUT_OUT_OF_BOUNDS
        /\ timerState[last.timer] = NULL
        /\ timerTimeout[last.timer] = NoTimeout

\* The constructor was called with 0.
C14_Witness ==
    /\ last.op = "constructor"
    /\ last.arg = [kind |-> "number", num |-> 0, mul |-> 1, den |-> 1]
    /\ last.thrown = ERROR_SIMPLE_TIMER_TIMEOUT_OUT_OF_BOUNDS

\* C15: a delayed execution that has fired has waited at least the duration
\* D = num * mul it was asked for, however large D is.
C15_NotBeforeDuration ==
    \A h \in DOMAIN timeouts :
        timeouts[h].status = "fired" =>
            timeouts[h].requested.num <= timeouts[h].elapsed \div timeouts[h].requested.mul

\* C16: between operations #timerPromise is non-null exactly while the
\* state is RUNNING.
C16_PromiseIffRunning ==
    \A t \in Timers : (timerPromise[t] # 0) <=> (timerState[t] = RUNNING)

\* One timer is RUNNING with its promise and another has settled.
C16_Witness ==
    \E t, u \in Timers :
        /\ timerState[t] = RUNNING
        /\ timerPromise[t] \in startReturned[t]
        /\ timerState[u] \in Terminal
        /\ startReturned[u] # {}

\* C17: only the constructor, start() and cancel() throw, and a call that
\* throws returns nothing; a promise is pending or fulfilled, never rejected,
\* and a fulfilled promise holds exactly DONE or CANCELLED.
C17_ErrorsOnlyAtCallSite ==
    /\ last.thrown # NoError =>
          /\ last.op \in {"constructor", "start", "cancel"}
          /\ last.returned = NoValue
    /\ \A p \in DOMAIN promises :
          \/ promises[p].status = "pending" /\ promises[p].value = NULL
          \/ promises[p].status = "fulfilled" /\ promises[p].value \in Terminal

\* A call has thrown on a timer whose promise is fulfilled.
C17_Witness ==
    /\ last.thrown \in CallErrors
    /\ \E p \in startReturned[last.timer] : promises[p].status = "fulfilled"

\* C18: once cancel() has succeeded, "timerup" is never emitted for the
\* timer and the event loop holds no pending registration of it.
C18_NoExpiryAfterCancel ==
    \A t \in Timers :
        emitted[t].timercancelled > 0 =>
            /\ emitted[t].timerup = 0
            /\ PendingRegistrations(t) = {}
            /\ \A h \in Registrations(t) : timeouts[h].status = "cleared"

\* A timer was cancelled when its registration was due, and a later call
\* on it has been made.
C18_Witness ==
    /\ last.op = "start"
    /\ last.pre = CANCELLED
    /\ \E h \in Registrations(last.timer) :
          timeouts[h].status = "cleared" /\ timeouts[h].remaining = 0

\* C19: once the expiry callback has run the timer is DONE and its promise
\* is fulfilled with DONE by one resolve; "timercancelled" is never emitted
\* for it and cancel() on it throws ERROR_SIMPLE_TIMER_NOT_RUNNING.
C19_ExpiryWins ==
    /\ \A t \in Timers :
          emitted[t].timerup > 0 =>
              /\ timerState[t] = DONE
              /\ emitted[t].timercancelled = 0
              /\ \A p \in startReturned[t] :
                    FulfilledWith(p, DONE) /\ promises[p].resolveCalls = 1
    /\ (last.op = "cancel" /\ last.pre = DONE) =>
          last.thrown = ERROR_SIMPLE_TIMER_NOT_RUNNING

\* cancel() was called on a timer that had expired.
C19_Witness ==
    /\ last.op = "cancel"
    /\ last.pre = DONE
    /\ emitted[last.timer].timerup = 1
    /\ \E p \in startReturned[last.timer] : FulfilledWith(p, DONE)

\* C20: the expiry callback runs only for a RUNNING timer, and in that one
\* step it clears #timerHandle and #timerPromise, sets the state to DONE and
\* fulfils the pending promise with DONE; it runs once per timer.
C20_ExpiryStep ==
    [][\A h \in DOMAIN timeouts :
          (timeouts[h].status = "pending" /\ timeouts'[h].status = "fired") =>
             LET t == timeouts[h].owner
                 p == timerPromise[t]
             IN  /\ timerState[t] = RUNNING
                 /\ timerHandle[t] = h
                 /\ p \in DOMAIN promises
                 /\ promises[p].status = "pending"
                 /\ timerHandle'[t] = 0
                 /\ timerPromise'[t] = 0
                 /\ timerState'[t] = DONE
                 /\ promises'[p] = [status |-> "fulfilled", value |-> DONE,
                                    resolveCalls |-> 1]
                 /\ emitted'[t].timerup = 1]_vars

\* The expiry callback has just run.
C20_Witness ==
    /\ last.op = "timerup"
    /\ timerState[last.timer] = DONE
    /\ timerHandle[last.timer] = 0
    /\ timerPromise[last.timer] = 0

\* C21: #timerHandle is non-null only while the state is RUNNING: it is null
\* in SET, in DONE and in CANCELLED.
C21_HandleOnlyWhileRunning ==
    \A t \in Timers :
        /\ timerHandle[t] # 0 => timerState[t] = RUNNING
        /\ timerState[t] \in {SET, DONE, CANCELLED} => timerHandle[t] = 0

\* A timer that had a registration is DONE or CANCELLED, another is RUNNING.
C21_Witness ==
    \E t, u \in Timers :
        /\ timerState[t] \in Terminal
        /\ Registrations(t) # {}
        /\ timerHandle[t] = 0
        /\ timerState[u] = RUNNING
        /\ timerHandle[u] \in Registrations(u)

\* C22: #timerTimeout of a constructed timer is a whole number >= 1, and no
\* step changes it after construction.
C22_TimeoutFixed ==
    [][\A t \in Timers :
          timerState'[t] # NULL =>
             /\ timerTimeout'[t].den = 1
             /\ timerTimeout'[t].mul >= 1
             /\ timerTimeout'[t].num >= 1
             /\ timerState[t] # NULL => timerTimeout'[t] = timerTimeout[t]]_vars

\* A timer constructed with 2^31 has been started and has expired.
C22_Witness ==
    \E t \in Timers :
        /\ timerState[t] = DONE
        /\ timerTimeout[t] = [num |-> 32768, mul |-> 65536, den |-> 1]

\* C23: a fulfilled promise holds the state of its timer, which is DONE or
\* CANCELLED; the continuation of an awaiting caller reads that state, never
\* RUNNING.
C23_AwaiterSeesTerminalState ==
    /\ \A t \in Timers : \A p \in startReturned[t] :
          (p \in DOMAIN promises /\ promises[p].status = "fulfilled") =>
              /\ timerState[t] \in Terminal
              /\ promises[p].value = timerState[t]
    /\ last.op = "resume" =>
          /\ last.pre \in Terminal
          /\ last.pre = promises[last.returned].value
          /\ last.pre = timerState[last.timer]

\* The continuation of a caller that awaited a cancelled timer has run.
C23_Witness ==
    /\ last.op = "resume"
    /\ last.pre = CANCELLED
    /\ FulfilledWith(last.returned, CANCELLED)

\* C24: at most one setTimeout registration is ever made for a timer, and a
\* RUNNING timer has exactly one pending registration, the one in
\* #timerHandle.
C24_OneRegistration ==
    \A t \in Timers :
        /\ Cardinality(Registrations(t)) <= 1
        /\ timerState[t] = RUNNING => PendingRegistrations(t) = {timerHandle[t]}

\* A RUNNING timer whose registration is due; another timer was cancelled.
C24_Witness ==
    \E t, u \in Timers :
        /\ timerState[t] = RUNNING
        /\ timeouts[timerHandle[t]].remaining = 0
        /\ timerState[u] = CANCELLED

\* The fields, listeners, promises and registrations of timer t are the
\* same before and after the step.
TimerUntouched(t) ==
    /\ timerState'[t] = timerState[t]
    /\ timerPromise'[t] = timerPromise[t]
    /\ timerHandle'[t] = timerHandle[t]
    /\ timerTimeout'[t] = timerTimeout[t]
    /\ timerEmitter'[t] = timerEmitter[t]
    /\ startReturned'[t] = startReturned[t]
    /\ \A p \in startReturned[t] : p \in DOMAIN promises => promises'[p] = promises[p]
    /\ \A h \in Registrations(t) : timeouts'[h] = timeouts[h]

\* C25: a constructor call, start(), cancel(), expiry or continuation of one
\* timer leaves every other timer untouched.
C25_TimersIndependent ==
    [][\A t \in Timers :
          (last' # last /\ last'.timer # t) => TimerUntouched(t)]_vars

\* One timer has just expired while another one is RUNNING.
C25_Witness ==
    /\ last.op = "timerup"
    /\ \E u \in Timers : u # last.timer /\ timerState[u] = RUNNING

\* C26: of "timerup" and "timercancelled" at most one is ever emitted for a
\* timer, and at most once; the listener of the other event stays
\* registered and has never run.
C26_OneEventOnce ==
    \A t \in Timers :
        /\ emitted[t].timerup + emitted[t].timercancelled <= 1
        /\ timerState[t] = DONE =>
              /\ emitted[t].timerup = 1
              /\ delivered[t] = {"timerup"}
              /\ {l.event : l \in timerEmitter[t]} = {"timercancelled"}
        /\ timerState[t] = CANCELLED =>
              /\ emitted[t].timercancelled = 1
              /\ delivered[t] = {"timercancelled"}
              /\ {l.event : l \in timerEmitter[t]} = {"timerup"}

\* A DONE timer still holds its "timercancelled" listener after a rejected
\* cancel().
C26_Witness ==
    /\ last.op = "cancel"
    /\ last.thrown = ERROR_SIMPLE_TIMER_NOT_RUNNING
    /\ timerState[last.timer] = DONE
    /\ \E l \in timerEmitter[last.timer] : l.event = "timercancelled"

====
